---- MODULE Spec2Model ----
(***************************************************************************)
(* jx-gitops: the "jenkins jobs" generator (pkg/cmd/jenkins/jobs/jobs.go)  *)
(* and the "rename" utility (pkg/cmd/rename/rename.go).                    *)
(*                                                                         *)
(* Four specifications share this module:                                  *)
(*   SpecCanon   canonicalName applied to bounded (kind, name) pairs       *)
(*   SpecRename  two consecutive runs of the Directory Renamer on a tree   *)
(*   Spec        one run of the jobs generator started from the command    *)
(*   SpecPreset  one run of the jobs generator on an Options value whose   *)
(*               exported fields a caller has filled in beforehand         *)
(*                                                                         *)
(* File names, kinds and resource names of the rename utility are          *)
(* sequences of one-character strings, so that ToLower, HasSuffix, Ext     *)
(* and Split are computed character by character.  Paths of the jobs       *)
(* generator are plain strings built with \o.                              *)
(***************************************************************************)
EXTENDS Integers, Sequences, FiniteSets, TLC

VARIABLES
  canon,      \* canonicalName harness: [kind, name, out, pc]
  fs,         \* rename: the tree's files, path -> parsed content
  fs0,        \* rename: the tree before the first run
  dirs,       \* rename: the tree's directories
  queue,      \* rename: entries filepath.Walk has still to visit
  pass,       \* rename: which run is in progress (1 or 2)
  renamed,    \* rename: the renames performed so far, per run
  rpc,        \* rename: "idle", "walking", "between", "done", "failed"
  pc,         \* jobs: "start", "loop", "render", "done", "failed", "panic"
  configFile, \* jobs: what is on disk at the source config path
  o,          \* jobs: the Options value
  pos,        \* jobs: <<i, j>> of the repository loop
  todo,       \* jobs: servers the range over JenkinsServers has not yet visited
  curServer,  \* jobs: the server the range loop is at ("" before the loop)
  written,    \* jobs: values.yaml files written by this run, path -> content
  err         \* jobs: the error Run returns, as [op, at]; NoErr when none

vars == <<canon, fs, fs0, dirs, queue, pass, renamed, rpc,
          pc, configFile, o, pos, todo, curServer, written, err>>
canonVars == <<canon>>
renameVars == <<fs, fs0, dirs, queue, pass, renamed, rpc>>
jobsVars == <<pc, configFile, o, pos, todo, curServer, written, err>>

(***************************************************************************)
(* Strings as character sequences                                          *)
(***************************************************************************)
UpperChars == <<"A", "B", "C", "D", "E", "F", "G", "H", "I", "J", "K", "L", "M", "N", "O", "P", "Q", "R", "S", "T", "U", "V", "W", "X", "Y", "Z">>
LowerChars == <<"a", "b", "c", "d", "e", "f", "g", "h", "i", "j", "k", "l", "m", "n", "o", "p", "q", "r", "s", "t", "u", "v", "w", "x", "y", "z">>

\* strings.ToLower on one (ASCII) character
LowerChar(c) ==
  IF \E i \in 1..Len(UpperChars) : UpperChars[i] = c
    THEN LowerChars[CHOOSE i \in 1..Len(UpperChars) : UpperChars[i] = c]
    ELSE c

\* strings.ToLower
ToLower(s) == [i \in 1..Len(s) |-> LowerChar(s[i])]

\* strings.HasSuffix
HasSuffix(s, suf) ==
  /\ Len(suf) <= Len(s)
  /\ SubSeq(s, Len(s) - Len(suf) + 1, Len(s)) = suf

(***************************************************************************)
(* rename.go: canonicalName                                                *)
(***************************************************************************)
\* the kind -> abbreviation table
kindSuffixes == {
  [key |-> <<"c", "l", "u", "s", "t", "e", "r", "r", "o", "l", "e", "b", "i", "n", "d", "i", "n", "g">>,
   val |-> <<"c", "r", "b">>],
  [key |-> <<"c", "o", "n", "f", "i", "g", "m", "a", "p">>,
   val |-> <<"c", "m">>],
  [key |-> <<"c", "u", "s", "t", "o", "m", "r", "e", "s", "o", "u", "r", "c", "e", "d", "e", "f", "i", "n", "i", "t", "i", "o", "n">>,
   val |-> <<"c", "r", "d">>],
  [key |-> <<"d", "e", "p", "l", "o", "y", "m", "e", "n", "t">>,
   val |-> <<"d", "e", "p", "l", "o", "y">>],
  [key |-> <<"m", "u", "t", "a", "t", "i", "n", "g", "w", "e", "b", "h", "o", "o", "k", "c", "o", "n", "f", "i", "g", "u", "r", "a", "t", "i", "o", "n">>,
   val |-> <<"m", "u", "t", "w", "e", "b", "h", "o", "o", "k", "c", "f", "g">>],
  [key |-> <<"n", "a", "m", "e", "s", "p", "a", "c", "e">>,
   val |-> <<"n", "s">>],
  [key |-> <<"r", "o", "l", "e", "b", "i", "n", "d", "i", "n", "g">>,
   val |-> <<"r", "b">>],
  [key |-> <<"s", "e", "r", "v", "i", "c", "e">>,
   val |-> <<"s", "v", "c">>],
  [key |-> <<"s", "e", "r", "v", "i", "c", "e", "a", "c", "c", "o", "u", "n", "t">>,
   val |-> <<"s", "a">>],
  [key |-> <<"v", "a", "l", "i", "d", "a", "t", "i", "n", "g", "w", "e", "b", "h", "o", "o", "k", "c", "o", "n", "f", "i", "g", "u", "r", "a", "t", "i", "o", "n">>,
   val |-> <<"v", "a", "l", "w", "e", "b", "h", "o", "o", "k", "c", "f", "g">>] }

\* Go map lookup: the zero value "" when the key is absent
MapLookup(table, k) ==
  IF \E e \in table : e.key = k
    THEN (CHOOSE e \in table : e.key = k).val
    ELSE << >>

\* a slip a reimplementation could make: looking the kind up as written
canonicalNameCaseSensitive(kind, name) ==
  LET suffix0 == MapLookup(kindSuffixes, kind)
      suffix == IF suffix0 = << >> THEN ToLower(kind) ELSE suffix0
  IN IF kind = << >> THEN name ELSE name \o <<"-">> \o suffix

canonicalName(kind, name) ==
  LET lk == ToLower(kind)
      suffix0 == MapLookup(kindSuffixes, lk)
      suffix == IF suffix0 = << >> THEN lk ELSE suffix0
  IN IF kind = << >> THEN name ELSE name \o <<"-">> \o suffix

\* kinds the harness feeds to canonicalName
CanonKinds == {
  << >>,
  <<"c", "l", "u", "s", "t", "e", "r", "r", "o", "l", "e", "b", "i", "n", "d", "i", "n", "g">>,
  <<"c", "o", "n", "f", "i", "g", "m", "a", "p">>,
  <<"c", "u", "s", "t", "o", "m", "r", "e", "s", "o", "u", "r", "c", "e", "d", "e", "f", "i", "n", "i", "t", "i", "o", "n">>,
  <<"d", "e", "p", "l", "o", "y", "m", "e", "n", "t">>,
  <<"m", "u", "t", "a", "t", "i", "n", "g", "w", "e", "b", "h", "o", "o", "k", "c", "o", "n", "f", "i", "g", "u", "r", "a", "t", "i", "o", "n">>,
  <<"n", "a", "m", "e", "s", "p", "a", "c", "e">>,
  <<"r", "o", "l", "e", "b", "i", "n", "d", "i", "n", "g">>,
  <<"s", "e", "r", "v", "i", "c", "e">>,
  <<"s", "e", "r", "v", "i", "c", "e", "a", "c", "c", "o", "u", "n", "t">>,
  <<"v", "a", "l", "i", "d", "a", "t", "i", "n", "g", "w", "e", "b", "h", "o", "o", "k", "c", "o", "n", "f", "i", "g", "u", "r", "a", "t", "i", "o", "n">>,
  <<"C", "l", "u", "s", "t", "e", "r", "R", "o", "l", "e", "B", "i", "n", "d", "i", "n", "g">>,
  <<"C", "o", "n", "f", "i", "g", "M", "a", "p">>,
  <<"C", "u", "s", "t", "o", "m", "R", "e", "s", "o", "u", "r", "c", "e", "D", "e", "f", "i", "n", "i", "t", "i", "o", "n">>,
  <<"D", "e", "p", "l", "o", "y", "m", "e", "n", "t">>,
  <<"M", "u", "t", "a", "t", "i", "n", "g", "W", "e", "b", "h", "o", "o", "k", "C", "o", "n", "f", "i", "g", "u", "r", "a", "t", "i", "o", "n">>,
  <<"N", "a", "m", "e", "s", "p", "a", "c", "e">>,
  <<"R", "o", "l", "e", "B", "i", "n", "d", "i", "n", "g">>,
  <<"S", "e", "r", "v", "i", "c", "e">>,
  <<"S", "e", "r", "v", "i", "c", "e", "A", "c", "c", "o", "u", "n", "t">>,
  <<"V", "a", "l", "i", "d", "a", "t", "i", "n", "g", "W", "e", "b", "h", "o", "o", "k", "C", "o", "n", "f", "i", "g", "u", "r", "a", "t", "i", "o", "n">>,
  <<"W", "i", "d", "g", "e", "t">>,
  <<"w", "i", "d", "g", "e", "t">>,
  <<"S", "E", "R", "V", "I", "C", "E">>,
  <<"P", "o", "d">> }

MaxNameLen == 3

NameChars == {"f", "o"}

RECURSIVE SeqsUpTo(_, _)
\* all sequences over S of length 1..n
SeqsUpTo(S, n) ==
  IF n = 0 THEN {}
  ELSE LET shorter == SeqsUpTo(S, n - 1)
       IN {<<c>> : c \in S} \cup {s \o <<c>> : s \in shorter, c \in S}

\* resource names (non-empty: callers skip before calling when there is none)
CanonNames == SeqsUpTo(NameChars, MaxNameLen)

CanonIdle == [kind |-> << >>, name |-> << >>, out |-> << >>, pc |-> "idle"]

InitCanon ==
  \E k \in CanonKinds, n \in CanonNames :
    canon = [kind |-> k, name |-> n, out |-> << >>, pc |-> "call"]

\* one call of canonicalName
CallCanonicalName ==
  /\ canon.pc = "call"
  /\ canon' = [canon EXCEPT !.out = canonicalName(canon.kind, canon.name),
                            !.pc = "done"]

(***************************************************************************)
(* rename.go: the Directory Renamer                                        *)
(***************************************************************************)
\* byte order of the characters that occur in paths
CharOrder == <<"-", ".", "/">> \o UpperChars \o LowerChars

CharCode(c) == CHOOSE i \in 1..Len(CharOrder) : CharOrder[i] = c

RECURSIVE LexLessFrom(_, _, _)
LexLessFrom(a, b, i) ==
  IF i > Len(b) THEN FALSE
  ELSE IF i > Len(a) THEN TRUE
  ELSE IF a[i] = b[i] THEN LexLessFrom(a, b, i + 1)
  ELSE CharCode(a[i]) < CharCode(b[i])

\* a < b in the lexical (byte) order sort.Strings uses
LexLess(a, b) == LexLessFrom(a, b, 1)

RECURSIVE SortStrings(_)
\* the names of S as a sorted sequence
SortStrings(S) ==
  IF S = {} THEN << >>
  ELSE LET least == CHOOSE x \in S : \A y \in S \ {x} : LexLess(x, y)
       IN <<least>> \o SortStrings(S \ {least})

RECURSIVE LastIndexFrom(_, _, _)
LastIndexFrom(s, c, i) ==
  IF i = 0 THEN 0
  ELSE IF s[i] = c THEN i
  ELSE LastIndexFrom(s, c, i - 1)

\* index of the last occurrence of c in s, 0 when there is none
LastIndex(s, c) == LastIndexFrom(s, c, Len(s))

\* filepath.Split: dir keeps its trailing separator
Split(path) ==
  LET i == LastIndex(path, "/")
  IN [dir |-> SubSeq(path, 1, i), file |-> SubSeq(path, i + 1, Len(path))]

\* filepath.Ext: the suffix starting at the final dot of the final element
Ext(path) ==
  LET file == Split(path).file
      i == LastIndex(file, ".")
  IN IF i = 0 THEN << >> ELSE SubSeq(file, i, Len(file))

\* filepath.Join of a directory and a file name (Clean drops a doubled separator)
Join(dir, file) ==
  LET d == IF Len(dir) > 1 /\ dir[Len(dir)] = "/"
             THEN SubSeq(dir, 1, Len(dir) - 1) ELSE dir
  IN d \o <<"/">> \o file

DotYaml == <<".", "y", "a", "m", "l">>
DotYml == <<".", "y", "m", "l">>

\* what yaml.ReadFile fails on
Unparsable == [kind |-> <<"?">>, name |-> <<"?">>, broken |-> TRUE]

Node(kind, name) == [kind |-> kind, name |-> name, broken |-> FALSE]

\* kyamls.GetName: metadata.name, "" when there is none
GetName(node, path) == node.name

\* kyamls.GetKind
GetKind(node, path) == node.kind

\* a rename that leaves the source in place (a copy)
OsRenameCopy(fsys, ds, old, new) ==
  IF new \in ds
    THEN [ok |-> FALSE, fs |-> fsys]
    ELSE [ok |-> TRUE,
          fs |-> [p \in DOMAIN fsys \cup {new} |->
                    IF p = new THEN fsys[old] ELSE fsys[p]]]

\* os.Rename: replaces an existing file at new; fails when new is a directory
OsRename(fsys, ds, old, new) ==
  IF new \in ds
    THEN [ok |-> FALSE, fs |-> fsys]
    ELSE [ok |-> TRUE,
          fs |-> [p \in (DOMAIN fsys \ {old}) \cup {new} |->
                    IF p = new THEN fsys[old] ELSE fsys[p]]]

\* the path walkFn moves the file at path to (lines 79-85)
NewPath(path, kind, name) ==
  LET dir == Split(path).dir
      ext == Ext(path)
      cn == canonicalName(kind, name)
      newFile == cn \o ext
  IN Join(dir, newFile)

Same(fsys) == [fs |-> fsys, err |-> FALSE, log |-> << >>]

\* the function Run hands to filepath.Walk, for an entry that is no directory
\* (info is nil when Lstat on the entry failed)
walkFn(fsys, ds, path) ==
  IF path \notin DOMAIN fsys THEN Same(fsys)
  ELSE IF ~HasSuffix(path, DotYaml) /\ ~HasSuffix(path, DotYml) THEN Same(fsys)
  ELSE LET node == fsys[path] IN
    IF node.broken THEN [fs |-> fsys, err |-> TRUE, log |-> << >>]
    ELSE LET name == GetName(node, path) IN
      IF name = << >> THEN Same(fsys)
      ELSE LET kind == GetKind(node, path)
               newPath == NewPath(path, kind, name)
           IN IF newPath # path
                THEN LET r == OsRename(fsys, ds, path, newPath)
                     IN IF r.ok
                          THEN [fs |-> r.fs, err |-> FALSE,
                                log |-> <<<<path, newPath>>>>]
                          ELSE [fs |-> fsys, err |-> TRUE, log |-> << >>]
                ELSE Same(fsys)

\* readDirNames: the sorted names of the entries of directory dir
ReadDirNames(fsys, ds, dir) ==
  LET prefix == dir \o <<"/">>
  IN SortStrings({Split(p).file : p \in {q \in DOMAIN fsys \cup ds : Split(q).dir = prefix}})

\* o.Dir
RootDir == <<"d">>

MaxFiles == 3

\* paths a file of the initial tree may have
TreePaths == {
  <<"d", "/", "a", ".", "y", "a", "m", "l">>,
  <<"d", "/", "f", "o", "o", "-", "s", "v", "c", ".", "y", "a", "m", "l">>,
  <<"d", "/", "z", ".", "y", "m", "l">>,
  <<"d", "/", "n", ".", "t", "x", "t">>,
  <<"d", "/", "s", "/", "a", ".", "y", "a", "m", "l">>,
  <<"d", "/", "s", "/", "f", "o", "o", "-", "s", "v", "c", ".", "y", "a", "m", "l">>,
  <<"d", "/", "f", "o", "o", ".", "y", "m", "l", "/", "a", ".", "y", "a", "m", "l">> }

\* parsed contents a file of the initial tree may have
TreeNodes == {
  Node(<<"S", "e", "r", "v", "i", "c", "e">>, <<"f", "o", "o">>),
  Node(<< >>, <<"f", "o", "o">>),
  Node(<< >>, <<"a">>),
  Node(<<"S", "e", "r", "v", "i", "c", "e">>, << >>),
  Unparsable }

\* the directory holding path, without the trailing separator
Parent(path) == LET d == Split(path).dir IN SubSeq(d, 1, Len(d) - 1)

RECURSIVE Ancestors(_)
Ancestors(path) ==
  IF LastIndex(path, "/") = 0 THEN {}
  ELSE {Parent(path)} \cup Ancestors(Parent(path))

EmptyFn == [x \in {} |-> x]

RenameIdle ==
  /\ fs = EmptyFn /\ fs0 = EmptyFn /\ dirs = {} /\ queue = << >>
  /\ pass = 0 /\ renamed = << >> /\ rpc = "idle"

InitRename ==
  \E ps \in SUBSET TreePaths :
    /\ Cardinality(ps) <= MaxFiles
    /\ \E t \in [ps -> TreeNodes] :
         /\ fs = t
         /\ fs0 = t
    /\ dirs = {RootDir} \cup UNION {Ancestors(p) : p \in ps}
    /\ queue = << >>
    /\ pass = 0
    /\ renamed = << >>
    /\ rpc = "idle"

\* Run is invoked: filepath.Walk starts at o.Dir
StartRun ==
  /\ rpc \in {"idle", "between"}
  /\ pass' = pass + 1
  /\ queue' = <<RootDir>>
  /\ renamed' = Append(renamed, << >>)
  /\ rpc' = "walking"
  /\ UNCHANGED <<fs, fs0, dirs>>

\* Walk reaches a directory: walkFn returns nil, the directory's names are read
WalkDir ==
  /\ rpc = "walking"
  /\ queue # << >>
  /\ Head(queue) \in dirs
  /\ \E names \in {ReadDirNames(fs, dirs, Head(queue))} :
       queue' = [i \in 1..Len(names) |-> Join(Head(queue), names[i])] \o Tail(queue)
  /\ UNCHANGED <<fs, fs0, dirs, pass, renamed, rpc>>

\* Walk reaches an entry that is no directory and calls walkFn on it
WalkFile ==
  /\ rpc = "walking"
  /\ queue # << >>
  /\ Head(queue) \notin dirs
  /\ \E r \in {walkFn(fs, dirs, Head(queue))} :
        /\ fs' = r.fs
        /\ renamed' = [renamed EXCEPT ![pass] = @ \o r.log]
        /\ rpc' = IF r.err THEN "failed" ELSE "walking"
        /\ queue' = IF r.err THEN << >> ELSE Tail(queue)
  /\ UNCHANGED <<fs0, dirs, pass>>

\* Walk has visited everything: Run returns nil
FinishRun ==
  /\ rpc = "walking"
  /\ queue = << >>
  /\ rpc' = IF pass = 1 THEN "between" ELSE "done"
  /\ UNCHANGED <<fs, fs0, dirs, queue, pass, renamed>>

(***************************************************************************)
(* jobs.go: the Jenkins jobs generator                                     *)
(***************************************************************************)
NoErr == [op |-> "", at |-> ""]

Error(op, at) == [op |-> op, at |-> at]

\* filepath.Join on plain path strings
JoinPath(a, b) == a \o "/" \o b

\* template texts: a sequence of literal text, {{ .Field }} and malformed actions
Lit(s) == [t |-> "lit", v |-> s]
Field(s) == [t |-> "var", v |-> s]
Malformed == [t |-> "bad", v |-> ""]

\* the template files on disk, path -> text
TemplateFiles ==
  [p \in {"w/t1.xml", "w/bad.xml", "default.xml"} |->
     CASE p = "w/t1.xml" -> <<Lit("<job>"), Field("Owner"), Lit("/"),
                              Field("Repository"), Lit("</job>")>>
       [] p = "w/bad.xml" -> <<Lit("<job>"), Malformed>>
       [] OTHER -> <<Lit("<flow>"), Field("Repository"), Lit("</flow>")>>]

\* files.FileExists on a template path
FileExists(path) == path \in DOMAIN TemplateFiles

RECURSIVE EvaluateFrom(_, _, _)
EvaluateFrom(data, text, i) ==
  IF i > Len(text) THEN [ok |-> TRUE, out |-> ""]
  ELSE LET tok == text[i]
           rest == EvaluateFrom(data, text, i + 1)
       IN IF tok.t = "bad" \/ ~rest.ok THEN [ok |-> FALSE, out |-> ""]
          ELSE IF tok.t = "lit" THEN [ok |-> TRUE, out |-> tok.v \o rest.out]
          ELSE IF tok.v \in DOMAIN data
                 THEN [ok |-> TRUE, out |-> data[tok.v] \o rest.out]
                 ELSE [ok |-> TRUE, out |-> "<no value>" \o rest.out]

\* templater.Evaluate: the text rendered against the data, or an error
Evaluate(data, text) == EvaluateFrom(data, text, 1)

NilJenkins == [isNil |-> TRUE, Server |-> "", XmlTemplate |-> ""]

Jenkins(server, xml) == [isNil |-> FALSE, Server |-> server, XmlTemplate |-> xml]

Repository(name, jc) ==
  [Name |-> name, URL |-> "", HTTPCloneURL |-> "", Jenkins |-> jc]

Group(owner, repos) ==
  [Owner |-> owner, Provider |-> "https://github.com", ProviderKind |-> "github",
   ProviderName |-> "gh", Repositories |-> repos]

\* sourceconfigs.DefaultValues: group-level values fill the repository's unset fields
DefaultValues(config, group, repo) ==
  LET url == IF repo.URL = ""
               THEN group.Provider \o "/" \o group.Owner \o "/" \o repo.Name
               ELSE repo.URL
      clone == IF repo.HTTPCloneURL = "" THEN url \o ".git" ELSE repo.HTTPCloneURL
  IN [repo EXCEPT !.URL = url, !.HTTPCloneURL = clone]

NilServers == [isNil |-> TRUE, m |-> EmptyFn]

EmptyServers == [isNil |-> FALSE, m |-> EmptyFn]

\* the data a repository's template is evaluated against (lines 208-216)
templateData(group, repo) ==
  [k \in {"Owner", "GitServerURL", "GitKind", "GitName", "Repository", "URL", "CloneURL"} |->
     CASE k = "Owner" -> group.Owner
       [] k = "GitServerURL" -> group.Provider
       [] k = "GitKind" -> group.ProviderKind
       [] k = "GitName" -> group.ProviderName
       [] k = "Repository" -> repo.Name
       [] k = "URL" -> repo.URL
       [] OTHER -> repo.HTTPCloneURL]

\* the entry is replaced by a one-element list
AppendToReplaces(m, k, v) ==
  [x \in DOMAIN m \cup {k} |-> IF x = k THEN <<v>> ELSE m[x]]

\* the new element is put in front
AppendToPrepends(m, k, v) ==
  [x \in DOMAIN m \cup {k} |->
     IF x = k THEN (IF k \in DOMAIN m THEN <<v>> \o m[k] ELSE <<v>>) ELSE m[x]]

\* append on a map entry: a missing key reads as the empty list
AppendTo(m, k, v) ==
  [x \in DOMAIN m \cup {k} |->
     IF x = k THEN (IF k \in DOMAIN m THEN Append(m[k], v) ELSE <<v>>) ELSE m[x]]

Outcome(opts, e, panicked) == [o |-> opts, err |-> e, panic |-> panicked]

\* the template check done before the server check
processJenkinsConfigTemplateFirst(opts, group, repo, jc, fault) ==
  LET server == jc.Server
      xmlTemplate == IF jc.XmlTemplate # ""
                       THEN JoinPath(opts.Dir, jc.XmlTemplate)
                       ELSE opts.DefaultXmlTemplate
  IN IF jc.XmlTemplate # "" /\ fault = "stat"
       THEN Outcome(opts, Error("stat", xmlTemplate), FALSE)
     ELSE IF jc.XmlTemplate # "" /\ ~FileExists(xmlTemplate)
       THEN Outcome(opts, Error("missing", xmlTemplate), FALSE)
     ELSE IF server = "" THEN Outcome(opts, NoErr, FALSE)
     ELSE IF xmlTemplate = "" THEN Outcome(opts, NoErr, FALSE)
     ELSE IF fault = "read" \/ ~FileExists(xmlTemplate)
       THEN Outcome(opts, Error("read", xmlTemplate), FALSE)
     ELSE IF opts.JenkinsServers.isNil THEN Outcome(opts, NoErr, TRUE)
     ELSE Outcome(
            [opts EXCEPT !.JenkinsServers.m =
               AppendTo(@, server,
                        [Server |-> server, Key |-> repo.Name,
                         XMLTemplateFile |-> xmlTemplate,
                         XMLTemplateText |-> TemplateFiles[xmlTemplate],
                         TemplateData |-> templateData(group, repo)])],
            NoErr, FALSE)

\* Options.processJenkinsConfig
processJenkinsConfig(opts, group, repo, jc, fault) ==
  LET server == jc.Server
      xmlTemplate == IF jc.XmlTemplate # ""
                       THEN JoinPath(opts.Dir, jc.XmlTemplate)
                       ELSE opts.DefaultXmlTemplate
  IN IF server = "" THEN Outcome(opts, NoErr, FALSE)
     ELSE IF jc.XmlTemplate # "" /\ fault = "stat"
       THEN Outcome(opts, Error("stat", xmlTemplate), FALSE)
     ELSE IF jc.XmlTemplate # "" /\ ~FileExists(xmlTemplate)
       THEN Outcome(opts, Error("missing", xmlTemplate), FALSE)
     ELSE IF xmlTemplate = "" THEN Outcome(opts, NoErr, FALSE)
     ELSE IF fault = "read" \/ ~FileExists(xmlTemplate)
       THEN Outcome(opts, Error("read", xmlTemplate), FALSE)
     ELSE IF opts.JenkinsServers.isNil THEN Outcome(opts, NoErr, TRUE)
     ELSE Outcome(
            [opts EXCEPT !.JenkinsServers.m =
               AppendTo(@, server,
                        [Server |-> server, Key |-> repo.Name,
                         XMLTemplateFile |-> xmlTemplate,
                         XMLTemplateText |-> TemplateFiles[xmlTemplate],
                         TemplateData |-> templateData(group, repo)])],
            NoErr, FALSE)

\* Validate without the check of the default template
ValidateNoDefaultCheck(opts, cf, fault) ==
  LET o1 == IF opts.ConfigFile = ""
              THEN [opts EXCEPT !.ConfigFile =
                      JoinPath(JoinPath(JoinPath(opts.Dir, ".jx"), "gitops"),
                               "source-config.yaml")]
              ELSE opts
      o2 == IF o1.OutDir = ""
              THEN [o1 EXCEPT !.OutDir = JoinPath(o1.Dir, "jenkins")]
              ELSE o1
  IN IF fault = "statConfig" THEN [o |-> o2, err |-> Error("stat", o2.ConfigFile)]
     ELSE IF ~cf.exists THEN [o |-> o2, err |-> NoErr]
     ELSE IF cf.malformed THEN [o |-> o2, err |-> Error("load", o2.ConfigFile)]
     ELSE [o |-> [o2 EXCEPT !.SourceConfig = cf.config,
                            !.JenkinsServers =
                               IF @.isNil THEN EmptyServers ELSE @],
           err |-> NoErr]

\* Options.Validate (yamls.LoadFile puts the file's groups in place of those
\* SourceConfig held)
Validate(opts, cf, fault) ==
  LET o1 == IF opts.ConfigFile = ""
              THEN [opts EXCEPT !.ConfigFile =
                      JoinPath(JoinPath(JoinPath(opts.Dir, ".jx"), "gitops"),
                               "source-config.yaml")]
              ELSE opts
      o2 == IF o1.OutDir = ""
              THEN [o1 EXCEPT !.OutDir = JoinPath(o1.Dir, "jenkins")]
              ELSE o1
  IN IF fault = "statConfig" THEN [o |-> o2, err |-> Error("stat", o2.ConfigFile)]
     ELSE IF ~cf.exists THEN [o |-> o2, err |-> NoErr]
     ELSE IF o2.DefaultXmlTemplate # "" /\ fault = "statDefault"
       THEN [o |-> o2, err |-> Error("stat", o2.DefaultXmlTemplate)]
     ELSE IF o2.DefaultXmlTemplate # "" /\ ~FileExists(o2.DefaultXmlTemplate)
       THEN [o |-> o2, err |-> Error("missing", o2.DefaultXmlTemplate)]
     ELSE IF cf.malformed THEN [o |-> o2, err |-> Error("load", o2.ConfigFile)]
     ELSE [o |-> [o2 EXCEPT !.SourceConfig = cf.config,
                            !.JenkinsServers =
                               IF @.isNil THEN EmptyServers ELSE @],
           err |-> NoErr]

\* a template that fails is skipped and the file is written all the same
RenderSkippingFailures(opts, server, wr, fault) ==
  LET dir == JoinPath(opts.OutDir, server)
      path == JoinPath(dir, "values.yaml")
      configs == opts.JenkinsServers.m[server]
      good == SelectSeq(configs,
                LAMBDA c : Evaluate(c.TemplateData, c.XMLTemplateText).ok)
      jobs == [k \in {good[i].Key : i \in 1..Len(good)} |->
                 LET last == CHOOSE i \in 1..Len(good) :
                               /\ good[i].Key = k
                               /\ \A j \in (i + 1)..Len(good) : good[j].Key # k
                 IN Evaluate(good[last].TemplateData, good[last].XMLTemplateText).out]
      values == [master |-> [jobs |-> jobs]]
      written1 == [p \in DOMAIN wr \cup {path} |-> IF p = path THEN values ELSE wr[p]]
  IN IF fault = "mkdir" THEN [written |-> wr, err |-> Error("mkdir", dir)]
     ELSE IF Len(good) < Len(configs)
       THEN [written |-> written1, err |-> Error("evaluate", path)]
     ELSE IF fault = "marshal" THEN [written |-> wr, err |-> Error("marshal", server)]
     ELSE IF fault = "write" THEN [written |-> wr, err |-> Error("write", path)]
     ELSE [written |-> written1, err |-> NoErr]

RECURSIVE EvalJobsFirstWins(_, _, _)
\* the loop keeping the first output of a key
EvalJobsFirstWins(configs, i, jobs) ==
  IF i > Len(configs) THEN [ok |-> TRUE, jobs |-> jobs, file |-> ""]
  ELSE LET jcfg == configs[i]
           output == Evaluate(jcfg.TemplateData, jcfg.XMLTemplateText)
       IN IF ~output.ok
            THEN [ok |-> FALSE, jobs |-> jobs, file |-> jcfg.XMLTemplateFile]
          ELSE EvalJobsFirstWins(configs, i + 1,
                        [k \in DOMAIN jobs \cup {jcfg.Key} |->
                           IF k \in DOMAIN jobs THEN jobs[k] ELSE output.out])

RECURSIVE EvalJobs(_, _, _)
\* the loop of lines 153-159 from index i on, jobs being the map built so far
EvalJobs(configs, i, jobs) ==
  IF i > Len(configs) THEN [ok |-> TRUE, jobs |-> jobs, file |-> ""]
  ELSE LET jcfg == configs[i]
           output == Evaluate(jcfg.TemplateData, jcfg.XMLTemplateText)
       IN IF ~output.ok
            THEN [ok |-> FALSE, jobs |-> jobs, file |-> jcfg.XMLTemplateFile]
          ELSE EvalJobs(configs, i + 1,
                        [k \in DOMAIN jobs \cup {jcfg.Key} |->
                           IF k = jcfg.Key THEN output.out ELSE jobs[k]])

\* one iteration of the range over JenkinsServers (lines 140-176)
Render(opts, server, wr, fault) ==
  LET dir == JoinPath(opts.OutDir, server)
      path == JoinPath(dir, "values.yaml")
      r == EvalJobs(opts.JenkinsServers.m[server], 1, EmptyFn)
      values == [master |-> [jobs |-> r.jobs]]
  IN IF fault = "mkdir" THEN [written |-> wr, err |-> Error("mkdir", dir)]
     ELSE IF ~r.ok THEN [written |-> wr, err |-> Error("evaluate", r.file)]
     ELSE IF fault = "marshal" THEN [written |-> wr, err |-> Error("marshal", server)]
     ELSE IF fault = "write" THEN [written |-> wr, err |-> Error("write", path)]
     ELSE [written |-> [p \in DOMAIN wr \cup {path} |->
                          IF p = path THEN values ELSE wr[p]],
           err |-> NoErr]

RECURSIVE Seek(_, _, _)
\* the next <<i, j>> at or after <<i, j>> that names a repository;
\* i is past the last group when there is none
Seek(groups, i, j) ==
  IF i > Len(groups) THEN <<i, 1>>
  ELSE IF j > Len(groups[i].Repositories) THEN Seek(groups, i + 1, 1)
  ELSE <<i, j>>

\* the body of the repository loop for groups[i].Repositories[j] (lines 128-136)
LoopBody(opts, i, j, fault) ==
  LET config == opts.SourceConfig
      group == config[i]
      repo == DefaultValues(config, group, group.Repositories[j])
      o1 == [opts EXCEPT !.SourceConfig[i].Repositories[j] = repo]
  IN IF repo.Jenkins.isNil THEN Outcome(o1, NoErr, FALSE)
     ELSE processJenkinsConfig(o1, group, repo, repo.Jenkins, fault)

MaxRepos == 2

RepoNames == {"app1", "app2"}

\* the Jenkins sub-configs a repository of the source config may carry
JenkinsChoices == {
  NilJenkins,
  Jenkins("", ""), Jenkins("", "missing.xml"),
  Jenkins("ci1", ""), Jenkins("ci1", "t1.xml"),
  Jenkins("ci1", "missing.xml"), Jenkins("ci1", "bad.xml"),
  Jenkins("ci2", ""), Jenkins("ci2", "t1.xml") }

Repositories == {Repository(n, jc) : n \in RepoNames, jc \in JenkinsChoices}

RECURSIVE RepoSeqs(_)
\* all sequences of at most n repositories
RepoSeqs(n) ==
  IF n = 0 THEN {<< >>}
  ELSE LET shorter == RepoSeqs(n - 1)
       IN shorter \cup {Append(s, r) : s \in shorter, r \in Repositories}

\* source configs of two groups holding at most n repositories between them
SourceConfigs(n) ==
  {<<Group("acme", SubSeq(s, 1, cut)), Group("beta", SubSeq(s, cut + 1, Len(s)))>> :
     <<s, cut>> \in {<<s, cut>> \in RepoSeqs(n) \X (0..n) : cut <= Len(s)}}

NoConfigFile == [exists |-> FALSE, malformed |-> FALSE, config |-> << >>]

MalformedConfigFile == [exists |-> TRUE, malformed |-> TRUE, config |-> << >>]

ConfigFiles(n) ==
  {NoConfigFile, MalformedConfigFile}
    \cup {[exists |-> TRUE, malformed |-> FALSE, config |-> c] : c \in SourceConfigs(n)}

\* values of the --default-xml-template flag
DefaultXmlTemplates == {"", "default.xml", "nodefault.xml"}

\* the Options value NewCmdJenkinsJobs builds, flags parsed
NewOptions(defaultXml) ==
  [Dir |-> "w", ConfigFile |-> "", OutDir |-> "", DefaultXmlTemplate |-> defaultXml,
   SourceConfig |-> << >>, JenkinsServers |-> NilServers]

JobsStart ==
  /\ pc = "start" /\ pos = <<1, 1>> /\ todo = {} /\ curServer = ""
  /\ written = EmptyFn /\ err = NoErr

JobsIdle ==
  /\ pc = "idle" /\ pos = <<1, 1>> /\ todo = {} /\ curServer = ""
  /\ written = EmptyFn /\ err = NoErr
  /\ o = NewOptions("") /\ configFile = NoConfigFile

InitJobs ==
  /\ JobsStart
  /\ configFile \in ConfigFiles(MaxRepos)
  /\ \E d \in DefaultXmlTemplates : o = NewOptions(d)

\* an entry left in JenkinsServers by whoever built the Options value
StaleServers ==
  [isNil |-> FALSE,
   m |-> [s \in {"old"} |->
            <<[Server |-> "old", Key |-> "legacy",
               XMLTemplateFile |-> "default.xml",
               XMLTemplateText |-> TemplateFiles["default.xml"],
               TemplateData |-> [k \in {"Repository"} |-> "legacy"]]>>]]

\* Options values whose exported fields a caller has set before Run
InitPreset ==
  /\ JobsStart
  /\ configFile \in ConfigFiles(1)
  /\ \E d \in DefaultXmlTemplates, c \in SourceConfigs(1),
        js \in {NilServers, EmptyServers, StaleServers} :
       o = [NewOptions(d) EXCEPT !.SourceConfig = c, !.JenkinsServers = js]

ValidateFaults == {"none", "statConfig", "statDefault"}
ProcessFaults == {"none", "stat", "read"}
RenderFaults == {"none", "mkdir", "marshal", "write"}

\* Run calls Validate (lines 119-122)
RunValidate ==
  /\ pc = "start"
  /\ \E fault \in ValidateFaults :
       \E r \in {Validate(o, configFile, fault)} :
          /\ o' = r.o
          /\ err' = r.err
          /\ pc' = IF r.err = NoErr THEN "loop" ELSE "failed"
  /\ UNCHANGED <<configFile, pos, todo, curServer, written>>
  /\ UNCHANGED <<canonVars, renameVars>>

\* one iteration of the loop over groups and repositories (lines 125-138)
ProcessRepo ==
  /\ pc = "loop"
  /\ \E p \in {Seek(o.SourceConfig, pos[1], pos[2])} :
        /\ p[1] <= Len(o.SourceConfig)
        /\ \E fault \in ProcessFaults :
             \E r \in {LoopBody(o, p[1], p[2], fault)} :
                /\ o' = r.o
                /\ err' = r.err
                /\ pc' = IF r.panic THEN "panic"
                         ELSE IF r.err = NoErr THEN "loop" ELSE "failed"
                /\ pos' = IF r.panic \/ r.err # NoErr THEN p ELSE <<p[1], p[2] + 1>>
  /\ UNCHANGED <<configFile, todo, curServer, written>>
  /\ UNCHANGED <<canonVars, renameVars>>

\* the repository loop ends and the range over JenkinsServers begins (line 140)
EndLoop ==
  /\ pc = "loop"
  /\ \E p \in {Seek(o.SourceConfig, pos[1], pos[2])} :
        /\ p[1] > Len(o.SourceConfig)
        /\ pos' = p
  /\ todo' = DOMAIN o.JenkinsServers.m
  /\ pc' = "render"
  /\ UNCHANGED <<configFile, o, curServer, written, err>>
  /\ UNCHANGED <<canonVars, renameVars>>

\* one iteration of the range over JenkinsServers, in the map's arbitrary order
RenderServer ==
  /\ pc = "render"
  /\ \E s \in todo, fault \in RenderFaults :
       \E r \in {Render(o, s, written, fault)} :
          /\ curServer' = s
          /\ todo' = todo \ {s}
          /\ written' = r.written
          /\ err' = r.err
          /\ pc' = IF r.err = NoErr THEN "render" ELSE "failed"
  /\ UNCHANGED <<configFile, o, pos>>
  /\ UNCHANGED <<canonVars, renameVars>>

\* the range is exhausted: Run returns nil (line 178)
ReturnNil ==
  /\ pc = "render"
  /\ todo = {}
  /\ pc' = "done"
  /\ UNCHANGED <<configFile, o, pos, todo, curServer, written, err>>
  /\ UNCHANGED <<canonVars, renameVars>>

(***************************************************************************)
(* Specifications                                                          *)
(***************************************************************************)
NextCanon == CallCanonicalName /\ UNCHANGED <<renameVars, jobsVars>>

InitCanonOnly == InitCanon /\ RenameIdle /\ JobsIdle

SpecCanon == InitCanonOnly /\ [][NextCanon]_vars

NextRename ==
  \/ StartRun /\ UNCHANGED <<canonVars, jobsVars>>
  \/ WalkDir /\ UNCHANGED <<canonVars, jobsVars>>
  \/ WalkFile /\ UNCHANGED <<canonVars, jobsVars>>
  \/ FinishRun /\ UNCHANGED <<canonVars, jobsVars>>

InitRenameOnly == InitRename /\ canon = CanonIdle /\ JobsIdle

SpecRename == InitRenameOnly /\ [][NextRename]_vars

Next ==
  \/ RunValidate
  \/ ProcessRepo
  \/ EndLoop
  \/ RenderServer
  \/ ReturnNil

Init == InitJobs /\ canon = CanonIdle /\ RenameIdle

Spec == Init /\ [][Next]_vars

InitPresetOnly == InitPreset /\ canon = CanonIdle /\ RenameIdle

SpecPreset == InitPresetOnly /\ [][Next]_vars

(***************************************************************************)
(* Properties of canonicalName and of the Directory Renamer                *)
(***************************************************************************)
Service == <<"S", "e", "r", "v", "i", "c", "e">>
Widget == <<"W", "i", "d", "g", "e", "t">>
Foo == <<"f", "o", "o">>

\* C6: canonicalName(kind, name) is name when kind is empty, name-<abbreviation>
\* when the lower-cased kind is a key of the table (whatever the case of kind),
\* and name-<lower-cased kind> for every other kind; ("Service","foo") gives
\* "foo-svc" and ("Widget","foo") gives "foo-widget".
C6_CanonicalName ==
  canon.pc = "done" =>
    LET kind == canon.kind
        name == canon.name
        lk == ToLower(kind)
        keys == {e.key : e \in kindSuffixes}
    IN /\ kind = << >> => canon.out = name
       /\ kind # << >> /\ lk \in keys =>
            \E e \in kindSuffixes : e.key = lk /\ canon.out = name \o <<"-">> \o e.val
       /\ kind # << >> /\ lk \notin keys => canon.out = name \o <<"-">> \o lk
       /\ kind = Service /\ name = Foo =>
            canon.out = <<"f", "o", "o", "-", "s", "v", "c">>
       /\ kind = Widget /\ name = Foo =>
            canon.out = <<"f", "o", "o", "-", "w", "i", "d", "g", "e", "t">>

\* canonicalName has been called on ("Service", "foo") and returned "foo-svc"
C6_Witness ==
  /\ canon.pc = "done"
  /\ canon.kind = Service
  /\ canon.name = Foo
  /\ canon.out = <<"f", "o", "o", "-", "s", "v", "c">>

\* C5: after one complete successful run, a second run over the resulting tree
\* performs no rename.
C5_Idempotent == pass = 2 => renamed[2] = << >>

\* both runs are complete, the first renamed files, and files collided on a
\* canonical path (fewer files are left than the tree started with)
C5_Witness ==
  /\ rpc = "done"
  /\ Len(renamed[1]) >= 2
  /\ Cardinality(DOMAIN fs) < Cardinality(DOMAIN fs0)

\* the path the renamer is to give the file at p of the initial tree
CanonicalPath(p) ==
  LET node == fs0[p]
  IN IF (HasSuffix(p, DotYaml) \/ HasSuffix(p, DotYml)) /\ ~node.broken
        /\ node.name # << >>
       THEN Split(p).dir \o canonicalName(node.kind, node.name) \o Ext(p)
       ELSE p

\* C10: a run only moves files: every file of the initial tree is still there
\* after the run, with its content, at its original or at its canonical path,
\* and the tree holds as many files as before.
C10_OnlyMoves ==
  rpc = "between" =>
    /\ \A p \in DOMAIN fs0 :
         \/ p \in DOMAIN fs /\ fs[p] = fs0[p]
         \/ CanonicalPath(p) \in DOMAIN fs /\ fs[CanonicalPath(p)] = fs0[p]
    /\ Cardinality(DOMAIN fs) = Cardinality(DOMAIN fs0)

(***************************************************************************)
(* Properties of the jobs generator                                        *)
(***************************************************************************)
\* <<i, j>> of every repository of a source config
Refs(config) ==
  {<<i, j>> : <<i, j>> \in
     {r \in (1..Len(config)) \X (1..MaxRepos) : r[2] <= Len(config[r[1]].Repositories)}}

\* config order: groups in order, repositories in order within a group
Before(r, q) == r[1] < q[1] \/ (r[1] = q[1] /\ r[2] < q[2])

RepoAt(config, r) == config[r[1]].Repositories[r[2]]

\* the template path a repository resolves to, "" when there is none
Resolved(repo) ==
  IF repo.Jenkins.XmlTemplate # ""
    THEN o.Dir \o "/" \o repo.Jenkins.XmlTemplate
    ELSE o.DefaultXmlTemplate

\* no Jenkins config, no server, or no template after the fallback
Skipped(repo) ==
  \/ repo.Jenkins.isNil
  \/ repo.Jenkins.Server = ""
  \/ Resolved(repo) = ""

\* the repositories of the loaded config that are not skipped and target server s
Targets(s) ==
  {r \in Refs(o.SourceConfig) :
     /\ ~Skipped(RepoAt(o.SourceConfig, r))
     /\ RepoAt(o.SourceConfig, r).Jenkins.Server = s}

TargetServers ==
  {RepoAt(o.SourceConfig, r).Jenkins.Server :
     r \in {q \in Refs(o.SourceConfig) : ~Skipped(RepoAt(o.SourceConfig, q))}}

ValuesPath(s) == o.OutDir \o "/" \o s \o "/values.yaml"

\* the rendering of a repository's own template against its own data
Rendering(r) ==
  LET repo == RepoAt(o.SourceConfig, r)
  IN Evaluate(templateData(o.SourceConfig[r[1]], repo), TemplateFiles[Resolved(repo)]).out

\* the last repository of R in config order
LastOf(R) == CHOOSE r \in R : \A q \in R \ {r} : Before(q, r)

\* the file written for s holds exactly the names of the targets of s
KeysAreNames(s) ==
  /\ ValuesPath(s) \in DOMAIN written
  /\ DOMAIN written[ValuesPath(s)] = {"master"}
  /\ DOMAIN written[ValuesPath(s)].master = {"jobs"}
  /\ DOMAIN written[ValuesPath(s)].master.jobs
       = {RepoAt(o.SourceConfig, r).Name : r \in Targets(s)}

FilesAreServers == DOMAIN written = {ValuesPath(s) : s \in TargetServers}

\* C2, as stated: after a successful Run there is a values.yaml exactly for the
\* servers with a non-skipped repository, its master.jobs keys are exactly the
\* Names of those repositories, and every such repository's Name is mapped to
\* the rendering of that repository's own template against its own data.
C2_Original ==
  pc = "done" =>
    /\ FilesAreServers
    /\ \A s \in TargetServers :
         /\ KeysAreNames(s)
         /\ \A r \in Targets(s) :
              written[ValuesPath(s)].master.jobs[RepoAt(o.SourceConfig, r).Name]
                = Rendering(r)

\* C2, amended: as C2, but a Name shared by several non-skipped repositories of
\* one server is mapped to the rendering of the last of them in config order.
C2_LastRendering ==
  pc = "done" =>
    /\ FilesAreServers
    /\ \A s \in TargetServers :
         /\ KeysAreNames(s)
         /\ \A r \in Targets(s) :
              LET name == RepoAt(o.SourceConfig, r).Name
                  same == {q \in Targets(s) : RepoAt(o.SourceConfig, q).Name = name}
              IN written[ValuesPath(s)].master.jobs[name] = Rendering(LastOf(same))

\* a successful run wrote a file with two jobs, one from each group
C2_Witness ==
  /\ pc = "done"
  /\ \E s \in TargetServers :
       /\ Cardinality(DOMAIN written[ValuesPath(s)].master.jobs) = 2
       /\ \E r, q \in Targets(s) : r[1] # q[1]

\* pairs of non-skipped repositories with one Name and one Server
Duplicates ==
  {<<r, q>> \in Refs(o.SourceConfig) \X Refs(o.SourceConfig) :
     /\ Before(r, q)
     /\ ~Skipped(RepoAt(o.SourceConfig, r))
     /\ ~Skipped(RepoAt(o.SourceConfig, q))
     /\ RepoAt(o.SourceConfig, r).Name = RepoAt(o.SourceConfig, q).Name
     /\ RepoAt(o.SourceConfig, r).Jenkins.Server
          = RepoAt(o.SourceConfig, q).Jenkins.Server}

\* what can make a run fail: an I/O fault, a missing file, a malformed
\* config, a template that does not evaluate
FailureCauses == {"stat", "missing", "load", "read", "mkdir", "evaluate", "marshal", "write"}

\* C3: repositories with the same Name and the same Server do not make the run
\* fail (a failed run failed on a fault, a missing file or a bad template), and
\* after the run the server's values.yaml holds one entry for that Name, the
\* rendering of the repository processed last in config order.
C3_LastWins ==
  /\ pc # "panic"
  /\ pc = "failed" => err.op \in FailureCauses
  /\ pc = "done" =>
       \A d \in Duplicates :
         LET repo == RepoAt(o.SourceConfig, d[1])
             s == repo.Jenkins.Server
             same == {q \in Targets(s) : RepoAt(o.SourceConfig, q).Name = repo.Name}
         IN /\ ValuesPath(s) \in DOMAIN written
            /\ repo.Name \in DOMAIN written[ValuesPath(s)].master.jobs
            /\ written[ValuesPath(s)].master.jobs[repo.Name] = Rendering(LastOf(same))

\* a run succeeded on two same-named repositories of one server, in different
\* groups, whose renderings differ
C3_Witness ==
  /\ pc = "done"
  /\ \E d \in Duplicates :
       /\ d[1][1] # d[2][1]
       /\ Rendering(d[1]) # Rendering(d[2])

\* the references of the config file that the original statement of C1 counts
MissingReference ==
  \/ \E r \in Refs(configFile.config) :
       LET jc == RepoAt(configFile.config, r).Jenkins
       IN /\ ~jc.isNil
          /\ jc.XmlTemplate # ""
          /\ ~FileExists(o.Dir \o "/" \o jc.XmlTemplate)
  \/ o.DefaultXmlTemplate # "" /\ ~FileExists(o.DefaultXmlTemplate)

\* C1, as stated: a repository referencing a missing XmlTemplate, or a missing
\* --default-xml-template, makes Run return an error with no values.yaml written.
C1_Original ==
  MissingReference =>
    /\ pc # "done"
    /\ pc = "failed" => written = EmptyFn

\* the references the code checks: the config file exists, and the template is
\* the default or that of a repository with a non-empty Jenkins.Server
CheckedMissingReference ==
  /\ configFile.exists
  /\ \/ \E r \in Refs(configFile.config) :
          LET jc == RepoAt(configFile.config, r).Jenkins
          IN /\ ~jc.isNil
             /\ jc.Server # ""
             /\ jc.XmlTemplate # ""
             /\ ~FileExists(o.Dir \o "/" \o jc.XmlTemplate)
     \/ o.DefaultXmlTemplate # "" /\ ~FileExists(o.DefaultXmlTemplate)

\* C1, amended: when the source config file exists, a missing
\* --default-xml-template, or a missing XmlTemplate of a repository whose
\* Jenkins.Server is not empty, makes Run return an error before the render
\* phase, with no values.yaml written.
C1_FailsBeforeOutput ==
  CheckedMissingReference =>
    /\ pc \in {"start", "loop", "failed"}
    /\ written = EmptyFn

\* Run failed on a repository's missing template after it had accepted an
\* earlier repository
C1_Witness ==
  /\ pc = "failed"
  /\ err = Error("missing", "w/missing.xml")
  /\ o.JenkinsServers.m # EmptyFn
  /\ written = EmptyFn

\* the repository the loop is about to process, when there is one
Remaining == {r \in Refs(o.SourceConfig) : ~Before(r, pos)}

NextRef == CHOOSE r \in Remaining : \A q \in Remaining \ {r} : Before(r, q)

\* C4: a repository with no Jenkins config, an empty Server or no resolved
\* template is skipped: processing it changes no server's job list, writes
\* nothing and raises no error, and every job list entry, output file and job
\* key comes from a repository that is not skipped.
C4_SkippedIsIgnored ==
  /\ [][(pc = "loop" /\ Remaining # {} /\ Skipped(RepoAt(o.SourceConfig, NextRef)))
          => /\ o'.JenkinsServers = o.JenkinsServers
             /\ written' = written
             /\ err' = NoErr
             /\ pc' = "loop"]_vars
  /\ [](\A s \in DOMAIN o.JenkinsServers.m :
          \A i \in 1..Len(o.JenkinsServers.m[s]) :
            \E r \in Targets(s) :
              RepoAt(o.SourceConfig, r).Name = o.JenkinsServers.m[s][i].Key)
  /\ [](\A p \in DOMAIN written :
          \E s \in TargetServers :
            /\ p = ValuesPath(s)
            /\ DOMAIN written[p].master.jobs
                 \subseteq {RepoAt(o.SourceConfig, r).Name : r \in Targets(s)})

\* a run succeeded and wrote a file although the config holds a repository
\* with an empty Server that names a missing template
C4_Witness ==
  /\ pc = "done"
  /\ written # EmptyFn
  /\ \E r \in Refs(o.SourceConfig) :
       RepoAt(o.SourceConfig, r).Jenkins = Jenkins("", "missing.xml")

\* C7: when the source config file does not exist, Run returns success and
\* writes no output file, whatever the Options value holds (a failure to stat
\* the config path itself set aside).
C7_MissingConfigIsNoOp ==
  (~configFile.exists /\ pc \in {"done", "failed", "panic"} /\ err.op # "stat") =>
    /\ pc = "done"
    /\ written = EmptyFn

RenderOps == {"mkdir", "evaluate", "marshal", "write"}

\* what a successful iteration writes for server s
ExpectedValues(s) ==
  [master |->
     [jobs |->
        [k \in {RepoAt(o.SourceConfig, r).Name : r \in Targets(s)} |->
           Rendering(LastOf({q \in Targets(s) : RepoAt(o.SourceConfig, q).Name = k}))]]]

RECURSIVE InOrder(_)
\* the references of R as a sequence in config order
InOrder(R) ==
  IF R = {} THEN << >>
  ELSE LET first == CHOOSE r \in R : \A q \in R \ {r} : Before(r, q)
       IN <<first>> \o InOrder(R \ {first})

\* the non-skipped repositories of server s processed so far
ProcessedTargets(s) == {r \in Targets(s) : Before(r, pos)}

IsPrefix(a, b) == Len(a) <= Len(b) /\ SubSeq(b, 1, Len(a)) = a

\* C9: every entry under key s of JenkinsServers has Server = s, s not empty,
\* a non-empty XMLTemplateFile that exists and whose text it holds, and the
\* Name of its repository as Key; the list of s is the repositories of s
\* processed so far, in order, and is only ever appended to.
C9_ServersWellFormed ==
  /\ [](\A s \in DOMAIN o.JenkinsServers.m :
          LET list == o.JenkinsServers.m[s]
              refs == InOrder(ProcessedTargets(s))
          IN /\ s # ""
             /\ Len(list) = Len(refs)
             /\ \A i \in 1..Len(list) :
                  /\ list[i].Server = s
                  /\ list[i].Key = RepoAt(o.SourceConfig, refs[i]).Name
                  /\ list[i].XMLTemplateFile # ""
                  /\ list[i].XMLTemplateFile = Resolved(RepoAt(o.SourceConfig, refs[i]))
                  /\ FileExists(list[i].XMLTemplateFile)
                  /\ list[i].XMLTemplateText = TemplateFiles[list[i].XMLTemplateFile]
                  /\ list[i].TemplateData
                       = templateData(o.SourceConfig[refs[i][1]],
                                      RepoAt(o.SourceConfig, refs[i])))
  /\ [][\A s \in DOMAIN o.JenkinsServers.m :
          /\ s \in DOMAIN o'.JenkinsServers.m
          /\ IsPrefix(o.JenkinsServers.m[s], o'.JenkinsServers.m[s])]_vars

\* a server's list holds two entries with different keys
C9_Witness ==
  \E s \in DOMAIN o.JenkinsServers.m :
    /\ Len(o.JenkinsServers.m[s]) = 2
    /\ o.JenkinsServers.m[s][1].Key # o.JenkinsServers.m[s][2].Key

====
